---- MODULE Spec2Model ----
(***************************************************************************)
(* Model of the script control surface of RedBookToolbox                   *)
(* (src/environment/script.js): runScript and its stream-read loop,        *)
(* stopScript, forceStopAllScripts, resetUIState and the /api/tasks task   *)
(* monitor.  One action is one JavaScript task: the code that runs from    *)
(* one await to the next, together with the promise reactions that the     *)
(* task itself makes runnable (an abort() rejects the pending fetch/read   *)
(* of the aborted run, whose catch/finally then runs at the microtask      *)
(* checkpoint of the same task).                                           *)
(***************************************************************************)
EXTENDS Integers, Sequences, FiniteSets, TLC

(***************************** bounds **************************************)
MaxRuns  == 2    \* accepted runScript invocations per behaviour
MaxOps   == 3    \* user clicks / key presses and timer ticks per behaviour
MaxLines == 2    \* newline-terminated lines of a generated stream
MaxCuts  == 1    \* chunk boundaries of a generated stream
MaxFields == 2   \* input elements of a generated tool item

RunIds == 1..MaxRuns

(************************* bytes and characters ****************************)
\* Bytes on the wire.  "m1","m2" are the two bytes of one multi-byte
\* character "M"; "LF" is the newline, "SP" a blank.  A JSON object
\* {"type":T,"content":C} is written  "{" T C "}"  with one symbol for the
\* type member and one for the content member.
LF == "LF"
SP == "SP"
HexDigits    == {"1", "a"}
TypeSyms     == {"o", "e", "s", "w", "E", "u"}
ContentSyms  == {"x", "y", "S", "0"}

\* value of the type member: data.type
TypeOf(k) ==
    CASE k = "o" -> "output"
      [] k = "e" -> "error"
      [] k = "s" -> "success"
      [] k = "w" -> "warning"
      [] k = "E" -> "end"
      [] OTHER   -> "other"

\* is data.content truthy (a non-empty string)
Truthy(c) == c # "0"

\* is data.content === 'STREAM_END'
IsStreamEnd(c) == c = "S"

\* The recursive definitions below are functions, so that every step works
\* on evaluated arguments.
Texts == Seq(STRING)

\* the decoder fed the bytes one at a time: pend is the incomplete character
\* carried so far, acc the characters produced so far
DecodeFrom[pend \in Texts, bytes \in Texts, acc \in Texts] ==
    IF bytes = <<>> THEN [text |-> acc, pending |-> pend]
    ELSE IF pend # <<>> THEN
        IF Head(bytes) = "m2" THEN DecodeFrom[<<>>, Tail(bytes), Append(acc, "M")]
        ELSE DecodeFrom[<<>>, bytes, Append(acc, "?")]
    ELSE IF Head(bytes) = "m1" THEN DecodeFrom[<<"m1">>, Tail(bytes), acc]
    ELSE IF Head(bytes) = "m2" THEN DecodeFrom[<<>>, Tail(bytes), Append(acc, "?")]
    ELSE DecodeFrom[<<>>, Tail(bytes), Append(acc, Head(bytes))]

\* a decoder used without {stream: true}: an incomplete character at the end
\* of a chunk becomes a replacement character and nothing is carried over
DecodeBytesNoStream(pend, bytes) ==
    LET d == DecodeFrom[<<>>, bytes, <<>>]
    IN  [text    |-> IF d.pending = <<>> THEN d.text ELSE Append(d.text, "?"),
         pending |-> <<>>]

\* decoder.decode(value, {stream: true}): bytes to characters; an incomplete
\* multi-byte character at the end of the chunk is kept in the decoder
DecodeBytes(pend, bytes) == DecodeFrom[pend, bytes, <<>>]

\* the pieces of text between newlines: cur is the piece being read
SplitFrom[text \in Texts, cur \in Texts, acc \in Seq(Texts)] ==
    IF text = <<>> THEN Append(acc, cur)
    ELSE IF Head(text) = LF THEN SplitFrom[Tail(text), <<>>, Append(acc, cur)]
    ELSE SplitFrom[Tail(text), Append(cur, Head(text)), acc]

\* buffer.split('\n'): always at least one piece
SplitLines(text) == SplitFrom[text, <<>>, <<>>]

\* line.trim()
RECURSIVE TrimLeft(_)
TrimLeft(t) == IF t # <<>> /\ Head(t) = SP THEN TrimLeft(Tail(t)) ELSE t

RECURSIVE TrimRight(_)
TrimRight(t) ==
    IF t # <<>> /\ t[Len(t)] = SP THEN TrimRight(SubSeq(t, 1, Len(t) - 1)) ELSE t

Trim(t) == TrimRight(TrimLeft(t))

\* /^[0-9a-fA-F]+$/.test(trimmedLine)
IsHex(t) == t # <<>> /\ \A i \in 1..Len(t) : t[i] \in HexDigits

\* JSON.parse(trimmedLine): an object with type and content members, a number
\* (which has neither member), or a SyntaxError
JSONParse(t) ==
    IF Len(t) = 4 /\ t[1] = "{" /\ t[2] \in TypeSyms /\ t[3] \in ContentSyms /\ t[4] = "}"
    THEN [ok |-> TRUE, type |-> TypeOf(t[2]), content |-> t[3]]
    ELSE IF /\ t # <<>>
            /\ \/ \A i \in 1..Len(t) : t[i] = "1"
               \/ Len(t) > 1 /\ t[1] = "-" /\ \A i \in 2..Len(t) : t[i] = "1"
    THEN [ok |-> TRUE, type |-> "undefined", content |-> "0"]
    ELSE [ok |-> FALSE, type |-> "undefined", content |-> "0"]

KindsShown == {"output", "error", "success", "warning"}

\* the record type passed on as the CSS class
ClassOfType(type) == type

\* the CSS class appendOutput is given for a record of this type
ClassOf(type) == IF type = "output" THEN "info" ELSE type

\* one rendered line of the output pane; line is the trimmed stream line the
\* entry was decoded from (empty for messages of the page itself) and run
\* the runScript invocation that appended it (0 for other handlers)
Entry(kind, text, line, run) == [kind |-> kind, text |-> text, line |-> line, run |-> run]

\* body of the for loop without either hexadecimal test
LineResultNoHexFilter(line, run) ==
    LET t == Trim(line)
        d == JSONParse(t)
    IN  IF t = <<>> THEN [events |-> <<>>, end |-> FALSE]
        ELSE IF d.ok THEN
            IF d.type \in KindsShown /\ Truthy(d.content)
            THEN [events |-> <<Entry(ClassOf(d.type), <<d.content>>, t, run)>>, end |-> FALSE]
            ELSE [events |-> <<>>, end |-> d.type = "end" /\ IsStreamEnd(d.content)]
        ELSE [events |-> <<Entry("info", t, t, run)>>, end |-> FALSE]

\* body of the for loop over the lines of a chunk: what one line renders and
\* whether it is the end/STREAM_END record that breaks out of the for loop
LineResult(line, run) ==
    LET t == Trim(line)
        d == JSONParse(t)
    IN  IF t = <<>> THEN [events |-> <<>>, end |-> FALSE]
        ELSE IF IsHex(t) THEN [events |-> <<>>, end |-> FALSE]
        ELSE IF d.ok THEN
            IF d.type \in KindsShown /\ Truthy(d.content)
            THEN [events |-> <<Entry(ClassOf(d.type), <<d.content>>, t, run)>>, end |-> FALSE]
            ELSE [events |-> <<>>, end |-> d.type = "end" /\ IsStreamEnd(d.content)]
        ELSE IF ~IsHex(t) THEN [events |-> <<Entry("info", t, t, run)>>, end |-> FALSE]
        ELSE [events |-> <<>>, end |-> FALSE]

\* a loop that puts each entry before the ones already rendered for the chunk
ProcessLinesNewestFirst(lines, run) ==
    LET Walk[ls \in Seq(Texts)] ==
            IF ls = <<>> THEN [events |-> <<>>, end |-> FALSE]
            ELSE IF LineResult(Head(ls), run).end THEN [events |-> <<>>, end |-> TRUE]
            ELSE [events |-> Walk[Tail(ls)].events \o LineResult(Head(ls), run).events,
                  end |-> Walk[Tail(ls)].end]
    IN  Walk[lines]

\* for (const line of lines) { ... break on end/STREAM_END }
ProcessLines(lines, run) ==
    LET Walk[ls \in Seq(Texts)] ==
            IF ls = <<>> THEN [events |-> <<>>, end |-> FALSE]
            ELSE IF LineResult(Head(ls), run).end THEN [events |-> <<>>, end |-> TRUE]
            ELSE [events |-> LineResult(Head(ls), run).events \o Walk[Tail(ls)].events,
                  end |-> Walk[Tail(ls)].end]
    IN  Walk[lines]

\* a chunk handler that forgets the incomplete last line
ProcessChunkDropTail(pending, buffer, chunk, run) ==
    LET dec   == DecodeBytes(pending, chunk)
        lines == SplitLines(buffer \o dec.text)
        res   == ProcessLines(SubSeq(lines, 1, Len(lines) - 1), run)
    IN  [pending |-> dec.pending, buffer |-> <<>>,
         events |-> res.events, end |-> res.end]

\* one pass of the while body after reader.read() returned a chunk:
\* decode, append to the buffer, split, keep the last piece, handle the lines
ProcessChunk(pending, buffer, chunk, run) ==
    LET dec   == DecodeBytes(pending, chunk)
        lines == SplitLines(buffer \o dec.text)
        res   == ProcessLines(SubSeq(lines, 1, Len(lines) - 1), run)
    IN  [pending |-> dec.pending, buffer |-> lines[Len(lines)],
         events |-> res.events, end |-> res.end]

(***************************** streams *************************************)
\* the lines a generated stream is made of (without their newline)
RecOutput  == <<"{", "o", "x", "}">>
RecSuccess == <<"{", "s", "y", "}">>
RecError   == <<"{", "e", "x", "}">>
RecEnd     == <<"{", "E", "S", "}">>
RecUnknown == <<"{", "u", "x", "}">>

Catalogue ==
    { RecOutput, RecError, RecEnd, RecUnknown, <<"1", "a">>, <<"a", "z", SP>>,
      <<"m1", "m2">>, <<"-", "1">>, <<SP>> }

RECURSIVE Flatten(_)
Flatten(ss) == IF ss = <<>> THEN <<>> ELSE Head(ss) \o Flatten(Tail(ss))

\* the bytes of a sequence of lines, each terminated by a newline
Wire(ls) == Flatten([i \in 1..Len(ls) |-> Append(ls[i], LF)])

\* the streams of at most maxLines lines
LineSeqs(maxLines) == UNION { [1..n -> Catalogue] : n \in 1..maxLines }

\* the chunks of stream s when it is cut after the byte positions in cuts
RECURSIVE Fragment(_, _, _)
Fragment(s, cuts, from) ==
    IF cuts = {} THEN <<SubSeq(s, from, Len(s))>>
    ELSE LET c == CHOOSE x \in cuts : \A y \in cuts : x <= y
         IN  <<SubSeq(s, from, c)>> \o Fragment(s, cuts \ {c}, c + 1)

CutSets(n) == { cs \in SUBSET (1..(n - 1)) : Cardinality(cs) <= MaxCuts }

\* every stream of the catalogue under every fragmentation
FragmentsOf(s) == { Fragment(s, cs, 1) : cs \in CutSets(Len(s)) }

DecPlans(maxLines) == UNION { FragmentsOf(Wire(ls)) : ls \in LineSeqs(maxLines) }

\* the stream of an operation that reports progress, succeeds and ends:
\* {output,"scanning"}, {success,"done"}, {end,"STREAM_END"}
ScenarioA == << RecOutput, RecSuccess, RecEnd >>

\* a line of text that is neither JSON nor hexadecimal, with multi-byte
\* characters, between two records
Garbled == << "m1", "m2", "z", "m1", "m2" >>
ScenarioC == << RecOutput, Garbled, RecSuccess >>

\* the response body of the interleaving specifications: an output and a
\* success record in one chunk, a line of plain text cut by the chunk
\* boundary and the end/STREAM_END record
PlanMixed ==
    << Append(RecOutput, LF) \o Append(RecSuccess, LF) \o << "z" >>,
       << LF >> \o Append(RecEnd, LF) >>


(**************************** the start request ****************************)
\* the name of the operation and the values a user may have typed
ScriptName  == "op"
FieldNames  == << "a", "b", "c", "d" >>
FieldValues ==
    { <<>>, << SP >>, << SP, SP >>, << "v" >>, << SP, "v", SP >>, << "v", SP, "w" >> }

\* the tool items with at most maxFields input elements
ToolItems(maxFields) ==
    UNION { { [i \in 1..n |-> [name |-> FieldNames[i], value |-> vs[i]]] :
                vs \in [1..n -> FieldValues] } : n \in 0..maxFields }

DefaultInputs == << [name |-> "a", value |-> << SP, "v" >>] >>

\* a request that carries the values as typed
BuildFormDataRaw(fields) ==
    LET Walk[i \in 0..Len(fields)] ==
            IF i = 0 THEN << [name |-> "script", value |-> << ScriptName >>] >>
            ELSE IF Trim(fields[i].value) # <<>>
            THEN Append(Walk[i - 1], [name |-> fields[i].name, value |-> fields[i].value])
            ELSE Walk[i - 1]
    IN  Walk[Len(fields)]

\* the FormData of runScript: the script name, then every input whose
\* trimmed value is not empty, with its trimmed value
BuildFormData(fields) ==
    LET Walk[i \in 0..Len(fields)] ==
            IF i = 0 THEN << [name |-> "script", value |-> << ScriptName >>] >>
            ELSE IF Trim(fields[i].value) # <<>>
            THEN Append(Walk[i - 1], [name |-> fields[i].name, value |-> Trim(fields[i].value)])
            ELSE Walk[i - 1]
    IN  Walk[Len(fields)]

(****************************** state **************************************)
VARIABLES
    isScriptRunning,      \* script.js:3
    abortController,      \* script.js:4, 0 is null, r the controller made by run r
    aborted,              \* the controllers whose signal is aborted
    taskMonitorInterval,  \* script.js:910, 0 is null, r the timer made by run r
    rendered,             \* children of #output-content, in order
    runs,                 \* the runScript invocations and where each is suspended
    nruns,                \* number of /api/run-script requests issued
    pollsInFlight,        \* /api/tasks requests of the monitor awaiting a response
    stopsInFlight,        \* stopScript invocations awaiting /api/stop-script
    forceInFlight,        \* forceStopAllScripts invocations awaiting /api/stop-script
    forceChecks,          \* armed 1 s re-check timers of forceStopAllScripts
    checksInFlight,       \* /api/tasks requests of the re-check awaiting a response
    ops,                  \* clicks, key presses and timer ticks so far
    plan,                 \* the chunks a start response body is delivered in
    inputs,               \* the input and select elements of the tool item
    stopRequested,        \* history: stopScript was invoked in an active state
                          \* and the surface has not been Idle since
    snapshots             \* history: the last snapshots updateTaskStatus processed
                          \* while isScriptRunning was true, since the flag last
                          \* changed otherwise; NotRecorded where none is kept

vars == << isScriptRunning, abortController, aborted, taskMonitorInterval, rendered,
           runs, nruns, pollsInFlight, stopsInFlight, forceInFlight, forceChecks,
           checksInFlight, ops, plan, inputs, stopRequested, snapshots >>

NotRecorded == << "none" >>

NoRun == [pc |-> "none", fed |-> 0, pending |-> <<>>, buffer |-> <<>>, ended |-> FALSE,
          form |-> <<>>]

InitPage ==
    /\ isScriptRunning = FALSE
    /\ abortController = 0
    /\ aborted = {}
    /\ taskMonitorInterval = 0
    /\ rendered = <<>>
    /\ runs = [r \in RunIds |-> NoRun]
    /\ nruns = 0
    /\ pollsInFlight = 0
    /\ stopsInFlight = 0
    /\ forceInFlight = 0
    /\ forceChecks = 0
    /\ checksInFlight = 0
    /\ ops = 0
    /\ stopRequested = FALSE
    /\ snapshots = NotRecorded

\* the page right after the first start was accepted (runScript up to its
\* await, lines 135-192), with the history of snapshots kept
PollInit ==
    /\ isScriptRunning = TRUE
    /\ abortController = 1
    /\ aborted = {}
    /\ taskMonitorInterval = 1
    /\ rendered = << Entry("info", << "start" >>, <<>>, 1) >>
    /\ runs = [r \in RunIds |-> IF r = 1
                  THEN [NoRun EXCEPT !.pc = "fetch", !.form = BuildFormData(DefaultInputs)]
                  ELSE NoRun]
    /\ nruns = 1
    /\ pollsInFlight = 0
    /\ stopsInFlight = 0
    /\ forceInFlight = 0
    /\ forceChecks = 0
    /\ checksInFlight = 0
    /\ ops = 0
    /\ stopRequested = FALSE
    /\ snapshots = <<>>
    /\ plan = PlanMixed
    /\ inputs = DefaultInputs

Init == InitPage /\ plan = PlanMixed /\ inputs = DefaultInputs

\* one start on a generated tool item
FormInit == InitPage /\ plan = PlanMixed /\ inputs \in ToolItems(MaxFields)

\* streams that are closed after a last line without a newline
UnterminatedPlans ==
    UNION { FragmentsOf(l) : l \in Catalogue }
        \cup FragmentsOf(Wire(<< RecOutput >>) \o RecError)

DecInit ==
    /\ InitPage
    /\ plan \in DecPlans(MaxLines) \cup FragmentsOf(Wire(ScenarioA))
                                   \cup FragmentsOf(Wire(ScenarioC))
                                   \cup UnterminatedPlans
    /\ inputs = DefaultInputs

(**************************** messages *************************************)
Msg(kind, tag, run) == Entry(kind, <<tag>>, <<>>, run)

MsgStart(r)     == Msg("info", "start", r)
MsgAlready      == Msg("warning", "already-running", 0)
MsgComplete(r)  == Msg("success", "flow-complete", r)
MsgCancelled(r) == Msg("warning", "cancelled-by-user", r)
MsgExecError(r) == Msg("error", "exec-error", r)


MsgStopSuccess  == Msg("warning", "stop-success", 0)
MsgStopInfo     == Msg("info", "stop-info", 0)
MsgStopFailed   == Msg("error", "stop-failed", 0)
MsgForcing      == Msg("warning", "force-stopping", 0)
MsgForceOk      == Msg("success", "force-ok", 0)
MsgForceFailed  == Msg("error", "force-failed", 0)
MsgStillRunning == Msg("warning", "still-running", 0)
MsgAllStopped   == Msg("success", "all-stopped", 0)

(************************ helpers of the handlers **************************)
\* a stopTaskMonitoring() that clears the interval and keeps the handle
StopTaskMonitoringKeepsHandle == UNCHANGED taskMonitorInterval

\* stopTaskMonitoring(): clearInterval and null the handle
StopTaskMonitoring == taskMonitorInterval' = 0

\* startTaskMonitoring() called by run r: replace any timer by a new one
StartTaskMonitoring(r) == taskMonitorInterval' = r

\* a reset that forgets the flag
ResetUIStateKeepFlag ==
    /\ UNCHANGED isScriptRunning
    /\ abortController' = 0
    /\ StopTaskMonitoring

\* resetUIState()
ResetUIState ==
    /\ isScriptRunning' = FALSE
    /\ abortController' = 0
    /\ StopTaskMonitoring

\* the history variable follows isScriptRunning
KeepStopRequested == stopRequested' = (stopRequested /\ isScriptRunning')

\* the history of snapshots ends when the flag changes
KeepSnapshots ==
    snapshots' = IF snapshots = NotRecorded \/ isScriptRunning' = isScriptRunning
                 THEN snapshots
                 ELSE <<>>

\* the history of snapshots gains the one updateTaskStatus is given
RecordSnapshot(outcome) ==
    snapshots' = IF snapshots = NotRecorded THEN snapshots
                 ELSE IF outcome # "fail" /\ isScriptRunning
                 THEN LET h == Append(snapshots, outcome)
                      IN  SubSeq(h, IF Len(h) > 3 THEN Len(h) - 2 ELSE 1, Len(h))
                 ELSE IF isScriptRunning' = isScriptRunning THEN snapshots
                 ELSE <<>>

Suspended == {"fetch", "read", "yield"}
InFlight(r) == runs[r].pc \in Suspended

\* an abort that reaches a pending read only: the signal was not given to fetch
AbortRejectsReadOnly(c) == c # 0 /\ c \notin aborted /\ runs[c].pc = "read"

\* controller.abort() rejects the pending fetch() or reader.read() of the run
\* that passed controller.signal to fetch
AbortRejects(c) == c # 0 /\ c \notin aborted /\ runs[c].pc \in {"fetch", "read"}

\* a run that leaves the try block without the finally block
RunEndsNoReset(r, rec, log, msg) ==
    /\ rendered' = Append(log, msg)
    /\ runs' = [runs EXCEPT ![r] = [rec EXCEPT !.pc = "done"]]
    /\ UNCHANGED << isScriptRunning, abortController, taskMonitorInterval >>

\* run r leaves the try block with message msg and runs its finally block
RunEnds(r, rec, log, msg) ==
    /\ rendered' = Append(log, msg)
    /\ runs' = [runs EXCEPT ![r] = [rec EXCEPT !.pc = "done"]]
    /\ ResetUIState

\* top of the while loop of run r: the cancellation check, then reader.read()
LoopTop(r, rec, log) ==
    IF abortController = 0
    THEN RunEnds(r, rec, log, MsgExecError(r))        \* TypeError: null.signal
    ELSE IF abortController \in aborted
    THEN RunEnds(r, rec, log, MsgComplete(r))         \* break
    ELSE IF r \in aborted
    THEN RunEnds(r, rec, log, MsgCancelled(r))        \* read() of an aborted body
    ELSE /\ runs' = [runs EXCEPT ![r] = [rec EXCEPT !.pc = "read"]]
         /\ rendered' = log
         /\ UNCHANGED << isScriptRunning, abortController, taskMonitorInterval >>

(****************************** runScript **********************************)
\* a guard that looks at the controller instead of the flag
StartGuardByController == abortController # 0

\* the single-flight guard of runScript
StartGuard == isScriptRunning

RunScriptRejected ==
    /\ ops < MaxOps
    /\ StartGuard
    /\ rendered' = Append(rendered, MsgAlready)
    /\ ops' = ops + 1
    /\ UNCHANGED << isScriptRunning, abortController, aborted, taskMonitorInterval,
                    runs, nruns, pollsInFlight, stopsInFlight, forceInFlight,
                    forceChecks, checksInFlight, plan, inputs >>
    /\ KeepStopRequested
    /\ KeepSnapshots

RunScriptAccepted ==
    /\ ops < MaxOps
    /\ nruns < MaxRuns
    /\ ~StartGuard
    /\ LET r == nruns + 1 IN
        /\ isScriptRunning' = TRUE
        /\ abortController' = r
        /\ rendered' = << MsgStart(r) >>
        /\ StartTaskMonitoring(r)
        /\ runs' = [runs EXCEPT ![r] = [NoRun EXCEPT !.pc = "fetch",
                                                     !.form = BuildFormData(inputs)]]
        /\ nruns' = r
    /\ ops' = ops + 1
    /\ UNCHANGED << aborted, pollsInFlight, stopsInFlight, forceInFlight,
                    forceChecks, checksInFlight, plan, inputs >>
    /\ KeepStopRequested
    /\ KeepSnapshots

RunScript == RunScriptRejected \/ RunScriptAccepted

\* a handler that does not look at response.ok
StartResponseAnyStatus(r, outcome) ==
    /\ runs[r].pc = "fetch"
    /\ IF outcome # "net"
       THEN LoopTop(r, runs[r], rendered)
       ELSE RunEnds(r, runs[r], rendered, MsgExecError(r))
    /\ UNCHANGED << aborted, nruns, pollsInFlight, stopsInFlight, forceInFlight,
                    forceChecks, checksInFlight, ops, plan, inputs >>
    /\ KeepStopRequested
    /\ KeepSnapshots

\* the fetch of /api/run-script settles
StartResponse(r, outcome) ==
    /\ runs[r].pc = "fetch"
    /\ IF outcome = "ok"
       THEN LoopTop(r, runs[r], rendered)
       ELSE RunEnds(r, runs[r], rendered, MsgExecError(r))
    /\ UNCHANGED << aborted, nruns, pollsInFlight, stopsInFlight, forceInFlight,
                    forceChecks, checksInFlight, ops, plan, inputs >>
    /\ KeepStopRequested
    /\ KeepSnapshots

\* a loop that goes from one chunk straight to the next read
ReadChunkNoYield(r) ==
    /\ runs[r].pc = "read"
    /\ runs[r].fed < Len(plan)
    /\ \E res \in { ProcessChunk(runs[r].pending, runs[r].buffer, plan[runs[r].fed + 1], r) } :
        /\ rendered' = rendered \o res.events
        /\ runs' = [runs EXCEPT ![r] = [pc |-> "read", fed |-> runs[r].fed + 1,
                                        pending |-> res.pending, buffer |-> res.buffer,
                                        ended |-> runs[r].ended \/ res.end,
                                        form |-> runs[r].form]]
        /\ IF res.end THEN StopTaskMonitoring ELSE UNCHANGED taskMonitorInterval
    /\ UNCHANGED << isScriptRunning, abortController, aborted, nruns, pollsInFlight,
                    stopsInFlight, forceInFlight, forceChecks, checksInFlight, ops, plan, inputs >>
    /\ KeepStopRequested
    /\ KeepSnapshots

\* reader.read() resolves with the next chunk
ReadChunk(r) ==
    /\ runs[r].pc = "read"
    /\ runs[r].fed < Len(plan)
    /\ \E res \in { ProcessChunk(runs[r].pending, runs[r].buffer, plan[runs[r].fed + 1], r) } :
        /\ rendered' = rendered \o res.events
        /\ runs' = [runs EXCEPT ![r] = [pc |-> "yield", fed |-> runs[r].fed + 1,
                                        pending |-> res.pending, buffer |-> res.buffer,
                                        ended |-> runs[r].ended \/ res.end,
                                        form |-> runs[r].form]]
        /\ IF res.end THEN StopTaskMonitoring ELSE UNCHANGED taskMonitorInterval
    /\ UNCHANGED << isScriptRunning, abortController, aborted, nruns, pollsInFlight,
                    stopsInFlight, forceInFlight, forceChecks, checksInFlight, ops, plan, inputs >>
    /\ KeepStopRequested
    /\ KeepSnapshots

\* reader.read() resolves with done
ReadDone(r) ==
    /\ runs[r].pc = "read"
    /\ runs[r].fed = Len(plan)
    /\ RunEnds(r, runs[r], rendered, MsgComplete(r))
    /\ UNCHANGED << aborted, nruns, pollsInFlight, stopsInFlight, forceInFlight,
                    forceChecks, checksInFlight, ops, plan, inputs >>
    /\ KeepStopRequested
    /\ KeepSnapshots

\* reader.read() rejects: the connection broke
ReadError(r) ==
    /\ runs[r].pc = "read"
    /\ RunEnds(r, runs[r], rendered, MsgExecError(r))
    /\ UNCHANGED << aborted, nruns, pollsInFlight, stopsInFlight, forceInFlight,
                    forceChecks, checksInFlight, ops, plan, inputs >>
    /\ KeepStopRequested
    /\ KeepSnapshots

\* the setTimeout(resolve, 0) at the end of the while body fires
YieldResume(r) ==
    /\ runs[r].pc = "yield"
    /\ LoopTop(r, runs[r], rendered)
    /\ UNCHANGED << aborted, nruns, pollsInFlight, stopsInFlight, forceInFlight,
                    forceChecks, checksInFlight, ops, plan, inputs >>
    /\ KeepStopRequested
    /\ KeepSnapshots


(****************************** stopScript *********************************)
\* stopScript up to its await: abort and drop the controller, send the stop
\* request; an aborted fetch/read makes the run's catch and finally run
StopScript ==
    /\ ops < MaxOps
    /\ LET c == abortController IN
        /\ aborted' = IF c # 0 THEN aborted \cup {c} ELSE aborted
        /\ IF AbortRejects(c)
           THEN RunEnds(c, runs[c], rendered, MsgCancelled(c))
           ELSE /\ abortController' = 0
                /\ UNCHANGED << isScriptRunning, taskMonitorInterval, rendered, runs >>
    /\ stopsInFlight' = stopsInFlight + 1
    /\ ops' = ops + 1
    /\ UNCHANGED << nruns, pollsInFlight, forceInFlight, forceChecks, checksInFlight, plan, inputs >>
    /\ stopRequested' = ((stopRequested \/ isScriptRunning) /\ isScriptRunning')
    /\ KeepSnapshots

StopOk     == {"success", "info", "other"}
StopFailure == {"http", "net"}

\* the try block after the await: the response is ok and is valid JSON
StopAcked(outcome) ==
    /\ rendered' = CASE outcome = "success" -> Append(rendered, MsgStopSuccess)
                     [] outcome = "info"    -> Append(rendered, MsgStopInfo)
                     [] OTHER               -> rendered
    /\ ResetUIState

\* a catch block that reports the failure and returns
StopFailedNoReset ==
    /\ rendered' = Append(rendered, MsgStopFailed)
    /\ UNCHANGED << isScriptRunning, abortController, taskMonitorInterval >>

\* the catch block: the request failed or the status was not a success
StopFailed ==
    /\ rendered' = Append(rendered, MsgStopFailed)
    /\ ResetUIState

\* the fetch of /api/stop-script issued by stopScript settles
StopResponse(outcome) ==
    /\ stopsInFlight > 0
    /\ stopsInFlight' = stopsInFlight - 1
    /\ IF outcome \in StopOk THEN StopAcked(outcome) ELSE StopFailed
    /\ UNCHANGED << aborted, runs, nruns, pollsInFlight, forceInFlight, forceChecks, checksInFlight,
                    ops, plan, inputs >>
    /\ KeepStopRequested
    /\ KeepSnapshots

(************************* forceStopAllScripts *****************************)
\* forceStopAllScripts up to its await: abort (the controller is kept)
ForceStop ==
    /\ ops < MaxOps
    /\ LET c == abortController IN
        /\ aborted' = IF c # 0 THEN aborted \cup {c} ELSE aborted
        /\ IF AbortRejects(c)
           THEN RunEnds(c, runs[c], Append(rendered, MsgForcing), MsgCancelled(c))
           ELSE /\ rendered' = Append(rendered, MsgForcing)
                /\ UNCHANGED << isScriptRunning, abortController, taskMonitorInterval, runs >>
    /\ forceInFlight' = forceInFlight + 1
    /\ ops' = ops + 1
    /\ UNCHANGED << nruns, pollsInFlight, stopsInFlight, forceChecks, checksInFlight, plan, inputs >>
    /\ KeepStopRequested
    /\ KeepSnapshots

\* the fetch of /api/stop-script issued by forceStopAllScripts settles
ForceResponse(outcome) ==
    /\ forceInFlight > 0
    /\ forceInFlight' = forceInFlight - 1
    /\ CASE outcome = "ok" ->
              /\ rendered' = Append(rendered, MsgForceOk)
              /\ ResetUIState
              /\ forceChecks' = forceChecks + 1
         [] outcome = "http" ->
              /\ rendered' = rendered
              /\ ResetUIState
              /\ forceChecks' = forceChecks + 1
         [] OTHER ->
              /\ rendered' = Append(rendered, MsgForceFailed)
              /\ UNCHANGED << isScriptRunning, abortController, taskMonitorInterval,
                              forceChecks >>
    /\ UNCHANGED << aborted, runs, nruns, pollsInFlight, stopsInFlight, checksInFlight,
                    ops, plan, inputs >>
    /\ KeepStopRequested
    /\ KeepSnapshots

\* the 1 s timer armed by forceStopAllScripts fires and fetches /api/tasks
ForceCheckTick ==
    /\ ops < MaxOps
    /\ forceChecks > 0
    /\ forceChecks' = forceChecks - 1
    /\ checksInFlight' = checksInFlight + 1
    /\ ops' = ops + 1
    /\ UNCHANGED << isScriptRunning, abortController, aborted, taskMonitorInterval,
                    rendered, runs, nruns, pollsInFlight, stopsInFlight, forceInFlight,
                    plan, inputs, stopRequested, snapshots >>

\* the fetch of /api/tasks issued by the re-check settles
ForceCheckResponse(outcome) ==
    /\ checksInFlight > 0
    /\ checksInFlight' = checksInFlight - 1
    /\ rendered' = CASE outcome = "active" -> Append(rendered, MsgStillRunning)
                     [] outcome = "empty"  -> Append(rendered, MsgAllStopped)
                     [] OTHER              -> rendered
    /\ UNCHANGED << isScriptRunning, abortController, aborted, taskMonitorInterval,
                    runs, nruns, pollsInFlight, stopsInFlight, forceInFlight,
                    forceChecks, ops, plan, inputs >>
    /\ KeepStopRequested
    /\ KeepSnapshots

(***************************** task monitor ********************************)
\* the setInterval callback fires and fetches /api/tasks
PollTick ==
    /\ ops < MaxOps
    /\ taskMonitorInterval # 0
    /\ pollsInFlight' = pollsInFlight + 1
    /\ ops' = ops + 1
    /\ UNCHANGED << isScriptRunning, abortController, aborted, taskMonitorInterval,
                    rendered, runs, nruns, stopsInFlight, forceInFlight, forceChecks,
                    checksInFlight, plan, inputs, stopRequested, snapshots >>

\* a reconciliation in which a belief of being idle is kept
UpdateTaskStatusLocalWins(active) ==
    IF active
    THEN UNCHANGED << isScriptRunning, abortController, taskMonitorInterval >>
    ELSE IF isScriptRunning
    THEN ResetUIState
    ELSE /\ StopTaskMonitoring
         /\ UNCHANGED << isScriptRunning, abortController >>

\* updateTaskStatus(taskData)
UpdateTaskStatus(active) ==
    IF active
    THEN /\ isScriptRunning' = TRUE
         /\ UNCHANGED << abortController, taskMonitorInterval >>
    ELSE IF isScriptRunning
    THEN ResetUIState
    ELSE /\ StopTaskMonitoring
         /\ UNCHANGED << isScriptRunning, abortController >>

\* the fetch of /api/tasks issued by the monitor settles
PollResponse(outcome) ==
    /\ pollsInFlight > 0
    /\ pollsInFlight' = pollsInFlight - 1
    /\ IF outcome = "fail"
       THEN UNCHANGED << isScriptRunning, abortController, taskMonitorInterval >>
       ELSE UpdateTaskStatus(outcome = "active")
    /\ UNCHANGED << aborted, rendered, runs, nruns, stopsInFlight, forceInFlight,
                    forceChecks, checksInFlight, ops, plan, inputs >>
    /\ KeepStopRequested
    /\ RecordSnapshot(outcome)

(*************************** specifications ********************************)
RunStep(r) ==
    \/ \E o \in {"ok", "http", "net"} : StartResponse(r, o)
    \/ ReadChunk(r)
    \/ ReadDone(r)
    \/ ReadError(r)
    \/ YieldResume(r)

Next ==
    \/ RunScript
    \/ \E r \in RunIds : RunStep(r)
    \/ StopScript
    \/ \E o \in StopOk \cup StopFailure : StopResponse(o)
    \/ ForceStop
    \/ \E o \in {"ok", "http", "net"} : ForceResponse(o)
    \/ ForceCheckTick
    \/ \E o \in {"active", "empty", "fail"} : ForceCheckResponse(o)
    \/ PollTick
    \/ \E o \in {"active", "empty", "fail"} : PollResponse(o)

Spec == Init /\ [][Next]_vars

\* every pending fetch, read and timer of a run settles, and so does every
\* /api/tasks request; a stop request may stay unanswered
\* the behaviours checked for progress: the user starts and stops, the
\* monitor polls
FairNext ==
    \/ RunScript
    \/ \E r \in RunIds : RunStep(r)
    \/ StopScript
    \/ \E o \in StopOk \cup StopFailure : StopResponse(o)
    \/ PollTick
    \/ \E o \in {"active", "empty", "fail"} : PollResponse(o)

FairSpec ==
    /\ Init
    /\ [][FairNext]_vars
    /\ \A r \in RunIds : WF_vars(RunStep(r))
    /\ WF_vars(\E o \in {"active", "empty", "fail"} : PollResponse(o))

\* one run of the read loop over a generated stream, left undisturbed
DecNext ==
    \/ nruns = 0 /\ RunScriptAccepted
    \/ StartResponse(1, "ok")
    \/ ReadChunk(1)
    \/ ReadDone(1)
    \/ YieldResume(1)

DecSpec == DecInit /\ [][DecNext]_vars

\* one run started from a generated tool item
FormSpec == FormInit /\ [][DecNext]_vars

\* the monitor polling after an accepted start, with the history of snapshots
PollSpec == PollInit /\ [][FairNext]_vars


(******************************* claims ************************************)
Last(log) == log[Len(log)]

\* C1: a start attempted while isScriptRunning is true issues no
\* /api/run-script request and changes nothing but the output pane, which
\* gains exactly one 'already running' warning line.
C1_SingleFlight ==
    [][ (isScriptRunning /\ RunScript) =>
            /\ nruns' = nruns
            /\ runs' = runs
            /\ isScriptRunning' = isScriptRunning
            /\ abortController' = abortController
            /\ aborted' = aborted
            /\ taskMonitorInterval' = taskMonitorInterval
            /\ pollsInFlight' = pollsInFlight
            /\ rendered' = Append(rendered, MsgAlready) ]_vars

C1_Witness ==
    /\ isScriptRunning
    /\ rendered # <<>>
    /\ Last(rendered) = MsgAlready
    /\ \E r \in RunIds : InFlight(r)

\* C2: at most one start request or stream-read loop of this page is in
\* flight in every reachable state.
C2_NoOverlap == Cardinality({ r \in RunIds : InFlight(r) }) <= 1

\* C3: when the stop request of stopScript fails, the failure is reported and
\* resetUIState still runs: afterwards isScriptRunning is false,
\* abortController is null and no poll timer is active.
C3_StopFailureResets ==
    [][ (\E o \in StopFailure : StopResponse(o)) =>
            /\ rendered' = Append(rendered, MsgStopFailed)
            /\ isScriptRunning' = FALSE
            /\ abortController' = 0
            /\ taskMonitorInterval' = 0 ]_vars

\* a stop made while the read loop was suspended at its yield has failed
C3_Witness ==
    /\ ~isScriptRunning
    /\ rendered # <<>>
    /\ Last(rendered) = MsgStopFailed
    /\ \E r \in RunIds : runs[r].pc = "yield" /\ r \in aborted

\* C4: once stop is requested in an active local state, local state
\* eventually becomes Idle, even if the stop request is never answered.
C4_StopReachesIdle == stopRequested ~> ~isScriptRunning

\* C5: every accepted runScript invocation eventually leaves through its
\* finally block, and when it does resetUIState has run: the flag is false,
\* the controller null and the timer cleared, so a new start is accepted.
C5_RunAlwaysResets ==
    /\ \A r \in RunIds : InFlight(r) ~> (runs[r].pc = "done")
    /\ [][ \A r \in RunIds :
             (InFlight(r) /\ runs'[r].pc = "done") =>
                 /\ isScriptRunning' = FALSE
                 /\ abortController' = 0
                 /\ taskMonitorInterval' = 0
                 /\ ~StartGuard' ]_vars

\* a run whose loop found the controller gone has ended and reset the page
C5_Witness ==
    \E r \in RunIds :
        /\ runs[r].pc = "done"
        /\ r \in aborted
        /\ Last(rendered) = MsgExecError(r)
        /\ ~isScriptRunning


(************************ claims about the decoder *************************)
\* the entries of the output pane that were decoded from the stream
StreamEvents(log) == SelectSeq(log, LAMBDA e : e.line # <<>>)

\* the bytes of the response body and its text
Stream == Flatten(plan)
StreamText == DecodeBytes(<<>>, Stream).text

\* the trimmed newline-terminated lines of the response body
CompleteLines ==
    LET ls == SplitLines(StreamText)
    IN  [i \in 1..(Len(ls) - 1) |-> Trim(ls[i])]

PureHexToken(t) == t # <<>> /\ \A i \in 1..Len(t) : t[i] \in {"1", "a"}

\* newline-terminated records, the last one the end/STREAM_END record and no
\* end/STREAM_END record before it
WellFormed ==
    LET ls == SplitLines(StreamText)
        n  == Len(ls)
    IN  /\ n >= 2
        /\ ls[n] = <<>>
        /\ Trim(ls[n - 1]) = RecEnd
        /\ \A i \in 1..(n - 2) : Trim(ls[i]) # RecEnd

\* C6: for a well-formed stream, what the read loop has rendered when it ends
\* is what it renders when the whole stream arrives as one chunk, however the
\* stream was cut into chunks.
C6_ChunkIndependence ==
    (runs[1].pc = "done" /\ WellFormed) =>
        rendered = << MsgStart(1) >>
                      \o ProcessChunk(<<>>, <<>>, Stream, 1).events
                      \o << MsgComplete(1) >>

\* a well-formed stream cut inside a line has been rendered
C6_Witness ==
    /\ runs[1].pc = "done"
    /\ WellFormed
    /\ Len(plan) >= 2
    /\ Last(plan[1]) # LF
    /\ StreamEvents(rendered) # <<>>

\* C7: no rendered entry comes from a line whose trimmed text is made of
\* hexadecimal digits only, also when the line arrived in two chunks.
C7_NoHexLineRendered ==
    \A i \in 1..Len(rendered) :
        rendered[i].line # <<>> => ~PureHexToken(rendered[i].line)

\* the line "1a" arrived as "1" and "a..." and the run has ended
C7_Witness ==
    /\ runs[1].pc = "done"
    /\ Len(plan) >= 2
    /\ plan[1] = << "1" >>
    /\ Head(plan[2]) = "a"
    /\ Len(plan[2]) >= 2
    /\ plan[2][2] = LF

IsRecord(t) ==
    Len(t) = 4 /\ t[1] = "{" /\ t[2] \in TypeSyms /\ t[3] \in ContentSyms /\ t[4] = "}"

\* the one entry the claim expects for a payload line
ExpectedEntry(t, run) ==
    IF IsRecord(t) /\ TypeOf(t[2]) \in KindsShown /\ t[3] # "0"
    THEN Entry(ClassOf(TypeOf(t[2])), << t[3] >>, t, run)
    ELSE Entry("info", t, t, run)

PayloadLines ==
    SelectSeq(CompleteLines, LAMBDA t : t # <<>> /\ ~PureHexToken(t) /\ t # RecEnd)

\* C8: every complete line that is not blank, not a hexadecimal token and not
\* the end/STREAM_END record is rendered exactly once: a recognised record
\* with its kind, anything else verbatim as output.
C8_NoLineDropped ==
    runs[1].pc = "done" =>
        StreamEvents(rendered) =
            [i \in 1..Len(PayloadLines) |-> ExpectedEntry(PayloadLines[i], 1)]

\* C9: once a run has decoded the end/STREAM_END record it takes no further
\* chunk from the reader.
C9_NoReadAfterEnd ==
    [][ \A r \in RunIds : runs[r].ended => runs'[r].fed = runs[r].fed ]_vars

\* C10: a run is reported as completed only if the end/STREAM_END record was
\* decoded and the stream carried no error event.
C10_SuccessOnlyAfterCleanEnd ==
    \A r \in RunIds :
        (\E i \in 1..Len(rendered) : rendered[i] = MsgComplete(r)) =>
            /\ runs[r].ended
            /\ ~\E i \in 1..Len(rendered) :
                   /\ rendered[i].run = r
                   /\ rendered[i].line # <<>>
                   /\ rendered[i].kind = "error"

(********************** claims about the task monitor **********************)
\* C11: right after updateTaskStatus has processed a snapshot,
\* isScriptRunning is true exactly when the snapshot lists an active task; an
\* empty snapshot met in an active state leaves the page reset (flag false,
\* controller null, timer cleared) and a non-empty one met in Idle sets the
\* flag.
C11_SnapshotWins ==
    [][ \A o \in {"active", "empty"} :
            (pollsInFlight > 0 /\ PollResponse(o)) =>
                /\ isScriptRunning' = (o = "active")
                /\ ((o = "empty" /\ isScriptRunning) =>
                       (abortController' = 0 /\ taskMonitorInterval' = 0)) ]_vars

\* the page believes a script is running although every run it started has
\* ended: the belief was adopted from a snapshot
C11_Witness ==
    /\ isScriptRunning
    /\ nruns >= 1
    /\ \A r \in RunIds : ~InFlight(r)

\* C12: when the snapshots active, active, empty are processed in that
\* order while isScriptRunning is true, the flag is still true after each
\* active snapshot and false once the empty one has been processed.
C12_ReconciliationConverges ==
    snapshots # NotRecorded =>
        /\ (snapshots # <<>> /\ \A i \in 1..Len(snapshots) : snapshots[i] = "active")
               => isScriptRunning
        /\ snapshots = << "active", "active", "empty" >> => ~isScriptRunning

C12_Witness ==
    /\ snapshots = << "active", "active", "empty" >>
    /\ taskMonitorInterval = 0

\* C13: the poll timer exists only while isScriptRunning is true; it is
\* created only by an accepted start and every step that clears the flag
\* clears the timer.
C13_TimerOnlyWhileActive ==
    /\ [](taskMonitorInterval # 0 => isScriptRunning)
    /\ [][ /\ ((taskMonitorInterval' # 0 /\ taskMonitorInterval' # taskMonitorInterval)
                   => (nruns' = nruns + 1 /\ taskMonitorInterval' = nruns'))
            /\ ((isScriptRunning /\ ~isScriptRunning') => taskMonitorInterval' = 0) ]_vars

\* a started run was reset while its timer was armed: the page is at rest
\* and the timer is gone
C13_Witness ==
    /\ ~isScriptRunning
    /\ taskMonitorInterval = 0
    /\ \E r \in RunIds : InFlight(r) /\ ~runs[r].ended

\* C14: once the server reports no active task and no start is issued any
\* more, isScriptRunning eventually is false and stays false, whatever
\* responses were still in flight.  (Every behaviour here issues finitely many
\* starts and polls, and a response processed late carries a snapshot taken
\* before the server went idle.)
C14_PollingBackstop == <>[](~isScriptRunning)

(*********************** claims about cancellation *************************)
\* the entries of the output pane decoded from the stream of run r
StreamEventsOf(log, r) == SelectSeq(log, LAMBDA e : e.line # <<>> /\ e.run = r)

C16_CancellationIsNoError ==
    [][ \A r \in RunIds :
            (InFlight(r) /\ r \in aborted' /\ runs'[r].pc = "done")
                => Last(rendered').kind # "error" ]_vars

\* C17: when the start request fails (network error or a non-success
\* status), the run renders exactly one entry, of kind error, decodes no
\* record of a stream, and the page is Idle with the poll timer stopped.
C17_StartFailure ==
    [][ \A r \in RunIds : \A o \in {"http", "net"} :
            (runs[r].pc = "fetch" /\ StartResponse(r, o)) =>
                /\ rendered' = Append(rendered, MsgExecError(r))
                /\ MsgExecError(r).kind = "error"
                /\ runs'[r].pc = "done"
                /\ runs'[r].fed = 0
                /\ ~isScriptRunning'
                /\ abortController' = 0
                /\ taskMonitorInterval' = 0 ]_vars

\* a start request that was not aborted has failed before any chunk
C17_Witness ==
    \E r \in RunIds :
        /\ runs[r].pc = "done"
        /\ runs[r].fed = 0
        /\ r \notin aborted
        /\ rendered = << MsgStart(r), MsgExecError(r) >>
        /\ ~isScriptRunning
        /\ taskMonitorInterval = 0

(************************ claims about the rendering ***********************)
\* a is b with some elements left out
RECURSIVE IsSubseq(_, _)
IsSubseq(a, b) ==
    IF a = <<>> THEN TRUE
    ELSE IF b = <<>> THEN FALSE
    ELSE IF Head(a) = Head(b) THEN IsSubseq(Tail(a), Tail(b))
    ELSE IsSubseq(a, Tail(b))

IsPrefix(a, b) == Len(a) <= Len(b) /\ SubSeq(b, 1, Len(a)) = a

\* the stream lines the rendered entries of run r were decoded from
LinesOf(log, r) ==
    LET es == StreamEventsOf(log, r) IN [i \in 1..Len(es) |-> es[i].line]

\* C18: the entries of one run stand in the output pane in the order of their
\* lines in the stream, none twice; a step that takes a chunk appends all the
\* entries of that chunk together, and no other step changes the entries a
\* run has rendered, except an accepted start, which empties the pane.
C18_EventOrder ==
    /\ [](\A r \in RunIds : IsSubseq(LinesOf(rendered, r), CompleteLines))
    /\ [][ \A r \in RunIds :
              /\ runs'[r].fed # runs[r].fed =>
                     rendered' = rendered \o
                         ProcessChunk(runs[r].pending, runs[r].buffer,
                                      plan[runs[r].fed + 1], r).events
              /\ \/ IsPrefix(StreamEventsOf(rendered, r), StreamEventsOf(rendered', r))
                 \/ nruns' = nruns + 1 ]_vars

\* two entries of one chunk stand next to each other, a stop response was
\* handled before the next chunk, and the entry of that chunk follows
C18_Witness ==
    \E r \in RunIds : \E i \in 1..Len(rendered) :
        /\ i + 3 <= Len(rendered)
        /\ rendered[i].run = r /\ rendered[i].line = RecOutput
        /\ rendered[i + 1].run = r /\ rendered[i + 1].line = RecSuccess
        /\ rendered[i + 2].run = 0
        /\ rendered[i + 3].run = r /\ rendered[i + 3].line = << "z" >>

\* C19: when the stream of an accepted start is the records output
\* 'scanning', success 'done', end 'STREAM_END' and is then closed, the page
\* is Idle and the entries of the output pane are exactly those three
\* records, in that order.
C19_ScenarioAThreeEntries ==
    (Stream = Wire(ScenarioA) /\ runs[1].pc = "done") =>
        /\ ~isScriptRunning
        /\ [i \in 1..Len(rendered) |-> rendered[i].line] = ScenarioA

\* C19 as amended: the page is Idle and the output pane holds the start line
\* of the run, the output entry, the success entry and the completion line,
\* in that order; the end record is not rendered.
C19_ScenarioA ==
    (Stream = Wire(ScenarioA) /\ runs[1].pc = "done") =>
        /\ ~isScriptRunning
        /\ abortController = 0
        /\ taskMonitorInterval = 0
        /\ rendered = << MsgStart(1),
                         Entry("info", << "x" >>, RecOutput, 1),
                         Entry("success", << "y" >>, RecSuccess, 1),
                         MsgComplete(1) >>

\* the three records arrived in more than one chunk and the run has ended
C19_Witness ==
    /\ Stream = Wire(ScenarioA)
    /\ Len(plan) >= 2
    /\ runs[1].pc = "done"
    /\ runs[1].ended

\* C20: when stopScript is invoked right after an accepted start, while the
\* start request is still pending, the run ends as cancelled in that very
\* task and the page is Idle with no poll timer; the timer stays cleared
\* until another start is accepted.
C20_ScenarioB ==
    [][ /\ \A r \in RunIds :
              (StopScript /\ abortController = r /\ runs[r].pc = "fetch") =>
                  /\ runs'[r].pc = "done"
                  /\ runs'[r].fed = 0
                  /\ rendered' = Append(rendered, MsgCancelled(r))
                  /\ ~isScriptRunning'
                  /\ abortController' = 0
                  /\ taskMonitorInterval' = 0
        /\ (taskMonitorInterval = 0 /\ taskMonitorInterval' # 0) => nruns' = nruns + 1 ]_vars

\* the start was stopped before its response: the stop request is still
\* unanswered, the run has ended as cancelled and no timer is left
C20_Witness ==
    \E r \in RunIds :
        /\ rendered = << MsgStart(r), MsgCancelled(r) >>
        /\ runs[r].pc = "done"
        /\ runs[r].fed = 0
        /\ r \in aborted
        /\ stopsInFlight > 0
        /\ ~isScriptRunning
        /\ taskMonitorInterval = 0

\* C21: a line that is not JSON and not a hexadecimal token, standing between
\* two valid records, is rendered verbatim as one output entry in its place,
\* and the records before and after it are rendered as usual.
C21_ScenarioC ==
    (Stream = Wire(ScenarioC) /\ runs[1].pc = "done") =>
        rendered = << MsgStart(1),
                      Entry("info", << "x" >>, RecOutput, 1),
                      Entry("info", << "M", "z", "M" >>, << "M", "z", "M" >>, 1),
                      Entry("success", << "y" >>, RecSuccess, 1),
                      MsgComplete(1) >>

\* the stream was cut inside the garbled line and the run has ended
C21_Witness ==
    /\ Stream = Wire(ScenarioC)
    /\ runs[1].pc = "done"
    /\ Len(plan) >= 2
    /\ Len(plan[1]) > Len(RecOutput) + 1
    /\ Len(plan[1]) < Len(RecOutput) + 1 + Len(Garbled)

\* what follows the last newline of the response body, trimmed
FinalFragment ==
    LET ls == SplitLines(StreamText) IN Trim(ls[Len(ls)])

\* C30: when the stream is closed, a last line without a newline that is
\* still in the buffer is decoded and rendered like any other line.
C30_FinalFragmentRendered ==
    (runs[1].pc = "done" /\ LineResult(FinalFragment, 1).events # <<>>) =>
        /\ StreamEvents(rendered) # <<>>
        /\ Last(StreamEvents(rendered)) = LineResult(FinalFragment, 1).events[1]

\* C25: a run that has decoded the end/STREAM_END record ends without a
\* further read: it is never found waiting on reader.read(), with the page
\* Running and the poll timer stopped, for more bytes or the close of the
\* stream.
C25_EndRecordCompletes ==
    \A r \in RunIds :
        ~ ( /\ runs[r].ended
            /\ runs[r].pc = "read"
            /\ isScriptRunning
            /\ taskMonitorInterval = 0 )

(*********************** claims about the start request ********************)
\* the inputs whose value holds something else than blanks
FilledFields ==
    { i \in 1..Len(inputs) : \E j \in 1..Len(inputs[i].value) : inputs[i].value[j] # SP }

\* C23: the start request carries the operation name and, for every input
\* whose trimmed value is not empty, one field with that trimmed value, in
\* the order of the inputs; an input that is empty or blank is left out.
C23_RequestFields ==
    runs[1].pc # "none" =>
        LET form == runs[1].form IN
        /\ Len(form) = 1 + Cardinality(FilledFields)
        /\ form[1] = [name |-> "script", value |-> << ScriptName >>]
        /\ \A i \in FilledFields :
              form[1 + Cardinality({ j \in FilledFields : j <= i })]
                  = [name |-> inputs[i].name, value |-> Trim(inputs[i].value)]
        /\ \A k \in 2..Len(form) :
              /\ form[k].value # <<>>
              /\ Head(form[k].value) # SP
              /\ Last(form[k].value) # SP

\* a start with one blank input and one input typed with blanks around it
C23_Witness ==
    /\ runs[1].pc # "none"
    /\ \E i \in 1..Len(inputs) : inputs[i].value = << SP >>
    /\ \E i \in 1..Len(inputs) : inputs[i].value = << SP, "v", SP >>

(************************* claims about stopping ***************************)
\* C22: stopScript invoked while the page is Idle changes nothing: the flag
\* stays false, nothing is aborted, no timer is started, no run is touched,
\* and what its request later reports is not an error entry.  (Before the
\* first start no poll is ever sent, so the page has been Idle throughout.)
C22_IdleStopIsNoOp ==
    [][ /\ (StopScript /\ ~isScriptRunning) =>
              /\ ~isScriptRunning'
              /\ aborted' = aborted
              /\ taskMonitorInterval' = taskMonitorInterval
              /\ runs' = runs
        /\ (nruns = 0 /\ \E o \in StopOk \cup StopFailure : StopResponse(o)) =>
              /\ ~isScriptRunning'
              /\ taskMonitorInterval' = 0
              /\ (rendered' # rendered => Last(rendered').kind # "error") ]_vars

\* C24: the read loop suspends after every chunk: a chunk is decoded only by
\* a step that leaves the run waiting at its yield, the step that resumes
\* it decodes nothing, and stopScript and the poll timer can run while the
\* run waits there with chunks still to come.
C24_YieldBetweenChunks ==
    [][ \A r \in RunIds :
          /\ (runs'[r].fed # runs[r].fed /\ runs[r].pc # "none") =>
                (runs[r].pc = "read" /\ runs'[r].pc = "yield")
          /\ (runs[r].pc = "yield" /\ runs'[r].pc # "yield") =>
                (runs'[r].fed = runs[r].fed /\ YieldResume(r))
          /\ (runs[r].pc = "yield" /\ abortController = r /\ StopScript) =>
                (r \in aborted' /\ runs'[r].fed = runs[r].fed)
          /\ (runs[r].pc = "yield" /\ PollTick) =>
                (pollsInFlight' = pollsInFlight + 1 /\ runs'[r] = runs[r]) ]_vars

\* a stop and a poll tick were both handled while run 1 waited at its yield
\* after its first chunk, the second chunk still to come
C24_Witness ==
    /\ runs[1].pc = "yield"
    /\ runs[1].fed = 1
    /\ Len(plan) > 1
    /\ 1 \in aborted
    /\ stopsInFlight > 0
    /\ pollsInFlight > 0

\* C26: whatever the outcome of its stop request, forceStopAllScripts
\* leaves the page Idle: flag false, no controller, no poll timer.
C26_ForceStopReachesIdle ==
    [][ (\E o \in {"ok", "http", "net"} : ForceResponse(o)) =>
            /\ ~isScriptRunning'
            /\ abortController' = 0
            /\ taskMonitorInterval' = 0 ]_vars

\* C27: the end of a stopScript leaves alone a run that was started after
\* that stop was requested.  (Every stopScript drops the controller, so a
\* controller present when a stop request settles belongs to a later run.)
C27_StopSparesLaterRun ==
    [][ (abortController # 0 /\ \E o \in StopOk \cup StopFailure : StopResponse(o)) =>
            /\ isScriptRunning' = isScriptRunning
            /\ abortController' = abortController
            /\ taskMonitorInterval' = taskMonitorInterval ]_vars

\* C28: while the flag is set, a start request or a stream read is in
\* flight or the poll timer is active.
C28_RunningHasDriver ==
    isScriptRunning => ((\E r \in RunIds : InFlight(r)) \/ taskMonitorInterval # 0)

\* C29: whenever a run evaluates the cancellation check at the top of its
\* loop, abortController is the controller that run created.
C29_CheckSeesOwnController ==
    [][ \A r \in RunIds :
          (YieldResume(r) \/ StartResponse(r, "ok")) => abortController = r ]_vars

====
